---- MODULE Spec2Model ----
(***************************************************************************)
(* Model of backend/main.py: the audio language detection API.             *)
(*                                                                         *)
(* State: the process-wide whisper_model handle, the position of the       *)
(* startup event, and, per request being served, the position of its       *)
(* handler, the request body, the handler's live locals and the response.  *)
(* The Whisper model, the file system and Google Cloud Speech are the      *)
(* environment: their answers are drawn from small sets.                   *)
(*                                                                         *)
(* Text values (transcripts) are sequences of one-character strings, so    *)
(* that str.strip() and " ".join() are computed character by character.    *)
(* Display names, error messages and paths are strings.  The native-script *)
(* part of a display name is written as an ASCII token in brackets.        *)
(* Confidence values are exact fractions of hundredths: [num, den] stands  *)
(* for (num / den) / 100, in lowest terms.                                 *)
(***************************************************************************)
EXTENDS Integers, Sequences, FiniteSets, TLC

VARIABLES whisper_model, startup, pc, request, detected_lang_code, calls, seen, response

vars == <<whisper_model, startup, pc, request, detected_lang_code, calls, seen, response>>

(* ------------------------------ bounds -------------------------------- *)

\* Number of requests the process serves concurrently.
NumReqs == 2

\* Largest number of segments Google Cloud Speech returns for one request.
MaxSegments == 2

Reqs == 1..NumReqs

(* --------------------------- generic helpers -------------------------- *)

\* Python None.
None == "<None>"

\* dict.get(key, default)
Get(d, key, default) == IF key \in DOMAIN d THEN d[key] ELSE default

RECURSIVE GCD(_, _)
GCD(a, b) == IF b = 0 THEN a ELSE GCD(b, a % b)

\* The float n / d (n in hundredths), as a fraction in lowest terms.
Ratio(n, d) == IF n = 0 THEN [num |-> 0, den |-> 1]
               ELSE [num |-> n \div GCD(n, d), den |-> d \div GCD(n, d)]

\* A float literal given in hundredths: Hundredths(95) is 0.95.
Hundredths(n) == Ratio(n, 1)

IsSpace(c) == c = " "

RECURSIVE LStrip(_)
LStrip(s) == IF s # <<>> /\ IsSpace(Head(s)) THEN LStrip(Tail(s)) ELSE s

RECURSIVE RStrip(_)
RStrip(s) == IF s # <<>> /\ IsSpace(s[Len(s)]) THEN RStrip(SubSeq(s, 1, Len(s) - 1)) ELSE s

\* str.strip()
Strip(s) == RStrip(LStrip(s))

\* " ".join(parts)
RECURSIVE Join(_)
Join(parts) == IF parts = <<>> THEN <<>>
               ELSE IF Len(parts) = 1 THEN parts[1]
               ELSE parts[1] \o <<" ">> \o Join(Tail(parts))

(* --------------------------- language registry ------------------------ *)

LANGUAGE_MAPPING ==
    [en |-> [name |-> "English", code |-> "en-IN"],
     hi |-> [name |-> "[hi] (Hindi)", code |-> "hi-IN"],
     mr |-> [name |-> "[mr] (Marathi)", code |-> "mr-IN"],
     gu |-> [name |-> "[gu] (Gujarati)", code |-> "gu-IN"]]

\* The lookup with a fallback entry that does not embed the identifier.
DetectedLangInfo_PlainUnknown(code) ==
    Get(LANGUAGE_MAPPING, code, [name |-> "Unknown", code |-> "en-IN"])

\* LANGUAGE_MAPPING.get(detected_lang_code, {'name': f'Unknown (...)', 'code': 'en-IN'})
DetectedLangInfo(code) ==
    Get(LANGUAGE_MAPPING, code, [name |-> "Unknown (" \o code \o ")", code |-> "en-IN"])

\* detected_lang_code in LANGUAGE_MAPPING
InMapping(code) == code \in DOMAIN LANGUAGE_MAPPING

\* The confidence of POST /detect-language with the fallback tier of /transcribe.
DetectConfidence_WrongTier(code) == IF InMapping(code) THEN Hundredths(90) ELSE Hundredths(80)

\* Line 155: the confidence of POST /detect-language.
DetectConfidence(code) == IF InMapping(code) THEN Hundredths(90) ELSE Hundredths(70)

\* The confidence of POST /transcribe with "or" for "and".
TranscribeConfidence_Or(transcript, code) ==
    IF transcript # <<>> \/ InMapping(code) THEN Hundredths(95) ELSE Hundredths(80)

\* Line 221: the confidence of POST /transcribe; transcript is already stripped.
TranscribeConfidence(transcript, code) ==
    IF transcript # <<>> /\ InMapping(code) THEN Hundredths(95) ELSE Hundredths(80)

(* ------------------------------ environment --------------------------- *)

\* Paths a request may name, and the ones os.path.exists() finds.
AudioPaths == {"speech.webm", "missing.webm"}
ExistingFiles == {"speech.webm"}

PathExists(path) == path \in ExistingFiles

\* language_code values of a /transcribe-speech request.
LanguageCodes == {"hi-IN"}

\* Language identifiers Whisper reports: the four curated ones and another.
WhisperLanguages == {"en", "hi", "mr", "gu", "fr"}

\* Texts Whisper reports: empty, whitespace only, padded.
WhisperTexts == {<<>>, <<" ">>, <<" ", "a", " ">>}

\* Messages of the exceptions the recognition capabilities raise.
ExceptionMessages == {"", "CUDA out of memory"}

\* Outcomes of whisper_model.transcribe(path, language=hint): a result dict
\* (either key may be absent) or a raised exception.  With a language hint
\* the result reports that language.
WhisperResults(hint) ==
    LET langs == IF hint = None THEN WhisperLanguages ELSE {hint}
    IN  {[language |-> l, text |-> t] : l \in langs, t \in WhisperTexts}
        \cup {[text |-> t] : t \in WhisperTexts}
        \cup {[language |-> l] : l \in langs}

WhisperOutcomes(hint) ==
    {[raised |-> FALSE, result |-> res] : res \in WhisperResults(hint)}
    \cup {[raised |-> TRUE, message |-> m] : m \in ExceptionMessages}

\* One alternative of a segment of a Google Cloud Speech response.
Alternative(transcript, confidence) == [transcript |-> transcript, confidence |-> confidence]

\* Segments (response.results entries): each is its list of alternatives, best
\* first.  Confidences are in hundredths.  A transcript may start with a
\* space; a segment may carry no alternative at all.
Segments ==
    {<<>>,
     <<Alternative(<<"a">>, 60)>>,
     <<Alternative(<<" ", "b">>, 90), Alternative(<<"x">>, 10)>>}

SeqsUpTo(S, n) == UNION {[1..k -> S] : k \in 0..n}

\* Outcomes of lines 264-284 (client construction, file read, recognize):
\* the list response.results, or a raised exception.
CloudOutcomes ==
    {[raised |-> FALSE, results |-> res] : res \in SeqsUpTo(Segments, MaxSegments)}
    \cup {[raised |-> TRUE, message |-> m] : m \in ExceptionMessages}

(* ------------------------------ exceptions ---------------------------- *)

HTTPException(status_code, detail) ==
    [type |-> "HTTPException", status_code |-> status_code, detail |-> detail]

RuntimeError(message) == [type |-> "Exception", message |-> message]

\* An except clause that catches HTTPException only.
ExceptExceptionCatches_OnlyHTTP(e) == e.type = "HTTPException"

\* Whether "except Exception" catches e: HTTPException derives from Exception.
ExceptExceptionCatches(e) == e.type \in {"HTTPException", "Exception"}

\* str(e).  Starlette's HTTPException.__str__ gives "<status>: <detail>".
StrOfException(e) ==
    IF e.type = "HTTPException"
    THEN ToString(e.status_code) \o ": " \o e.detail
    ELSE e.message

\* What the framework sends for an exception that leaves the handler.
TransportError(e) ==
    IF e.type = "HTTPException"
    THEN [status |-> e.status_code, detail |-> e.detail]
    ELSE [status |-> 500, detail |-> "Internal Server Error"]

(* ------------------------------ responses ----------------------------- *)

NoRequest == [endpoint |-> "none"]
NoResponse == [status |-> 0]

LanguageDetectionResponse(success, detected_language, language_code, confidence, transcript, error) ==
    [status |-> 200, success |-> success, detected_language |-> detected_language,
     language_code |-> language_code, confidence |-> confidence,
     transcript |-> transcript, error |-> error]

TranscriptionResponse(success, transcript, confidence, error) ==
    [status |-> 200, success |-> success, transcript |-> transcript,
     confidence |-> confidence, error |-> error]

\* The except clause of detect_language and of transcribe_audio.
DetectionFailure(e) ==
    IF ExceptExceptionCatches(e)
    THEN LanguageDetectionResponse(FALSE, "", "en-IN", Hundredths(0), <<>>, StrOfException(e))
    ELSE TransportError(e)

\* The except clause of transcribe_speech.
TranscriptionFailure(e) ==
    IF ExceptExceptionCatches(e)
    THEN TranscriptionResponse(FALSE, <<>>, Hundredths(0), StrOfException(e))
    ELSE TransportError(e)

(* ------------------------------ state --------------------------------- *)

Init ==
    /\ whisper_model = None
    /\ startup = "pending"
    /\ pc = [r \in Reqs |-> "idle"]
    /\ request = [r \in Reqs |-> NoRequest]
    /\ detected_lang_code = [r \in Reqs |-> None]
    /\ calls = [r \in Reqs |-> <<>>]
    /\ seen = [r \in Reqs |-> <<>>]
    /\ response = [r \in Reqs |-> NoResponse]

\* load_whisper_model() returns: the handle is set.
StartupLoaded ==
    /\ startup = "pending"
    /\ whisper_model' = "base"
    /\ startup' = "done"
    /\ UNCHANGED <<pc, request, detected_lang_code, calls, seen, response>>

\* load_whisper_model() re-raises: the handle stays None, and the server
\* accepts no further request (handlers already running run on).
StartupFailed ==
    /\ startup = "pending"
    /\ startup' = "failed"
    /\ UNCHANGED <<whisper_model, pc, request, detected_lang_code, calls, seen, response>>

\* The handler of request r ends with response resp.
Finish(r, resp) ==
    /\ pc' = [pc EXCEPT ![r] = "done"]
    /\ response' = [response EXCEPT ![r] = resp]

\* A handler that loads the model itself when it finds none.
HandleAfterCheck_LazyLoad(handle) == "base"

\* The handle after a handler has tested it (lines 131, 191): no handler
\* declares "global whisper_model", so none can assign it.
HandleAfterCheck(handle) == handle

\* Lines 129-136 and 189-196: the two precondition checks of the Whisper endpoints.
\* Either an exception is raised inside the try block, or the first call is made.
WhisperPreconditions(r, endpoint, path, callpc) ==
    /\ pc[r] = "idle"
    /\ startup # "failed"
    /\ request' = [request EXCEPT ![r] = [endpoint |-> endpoint, audio_path |-> path]]
    /\ seen' = [seen EXCEPT ![r] = <<whisper_model, PathExists(path)>>]
    /\ whisper_model' = HandleAfterCheck(whisper_model)
    /\ UNCHANGED <<startup, detected_lang_code>>
    /\ IF whisper_model = None
       THEN /\ Finish(r, DetectionFailure(HTTPException(500, "Whisper model not loaded")))
            /\ UNCHANGED calls
       ELSE IF ~PathExists(path)
       THEN /\ Finish(r, DetectionFailure(
                              HTTPException(404, "Audio file not found: " \o path)))
            /\ UNCHANGED calls
       ELSE /\ pc' = [pc EXCEPT ![r] = callpc]
            /\ calls' = [calls EXCEPT ![r] = Append(@, None)]
            /\ UNCHANGED response

\* POST /detect-language up to the call of whisper_model.transcribe.
DetectLanguageBegin(r) ==
    \E path \in AudioPaths : WhisperPreconditions(r, "detect-language", path, "detect_call")

\* POST /detect-language from the return of whisper_model.transcribe.
DetectLanguageReturn(r) ==
    /\ pc[r] = "detect_call"
    /\ \E out \in WhisperOutcomes(None) :
         /\ IF out.raised
            THEN /\ Finish(r, DetectionFailure(RuntimeError(out.message)))
                 /\ seen' = [seen EXCEPT ![r] = Append(@, out)]
                 /\ UNCHANGED detected_lang_code
            ELSE LET code == Get(out.result, "language", "en")
                     info == DetectedLangInfo(code)
                     confidence == DetectConfidence(code)
                 IN  /\ detected_lang_code' = [detected_lang_code EXCEPT ![r] = code]
                     /\ seen' = [seen EXCEPT ![r] = Append(@, [raised |-> FALSE, language |-> code])]
                     /\ Finish(r, LanguageDetectionResponse(
                                     TRUE, info.name, info.code, confidence, <<>>, None))
    /\ UNCHANGED <<whisper_model, startup, request, calls>>

\* A second pass without the language hint.
SecondPassLanguage_NoHint(code) == None

\* The language argument of the second whisper_model.transcribe call (line 216).
SecondPassLanguage(code) == code

\* POST /transcribe up to the first call of whisper_model.transcribe.
TranscribeBegin(r) ==
    \E path \in AudioPaths : WhisperPreconditions(r, "transcribe", path, "transcribe_call1")

\* POST /transcribe from the return of the first call to the second call.
TranscribeFirstReturn(r) ==
    /\ pc[r] = "transcribe_call1"
    /\ \E out \in WhisperOutcomes(None) :
         IF out.raised
         THEN /\ Finish(r, DetectionFailure(RuntimeError(out.message)))
              /\ seen' = [seen EXCEPT ![r] = Append(@, out)]
              /\ UNCHANGED <<detected_lang_code, calls>>
         ELSE LET code == Get(out.result, "language", "en")
              IN  /\ detected_lang_code' = [detected_lang_code EXCEPT ![r] = code]
                  /\ seen' = [seen EXCEPT ![r] = Append(@, [raised |-> FALSE, language |-> code])]
                  /\ calls' = [calls EXCEPT ![r] = Append(@, SecondPassLanguage(code))]
                  /\ pc' = [pc EXCEPT ![r] = "transcribe_call2"]
                  /\ UNCHANGED response
    /\ UNCHANGED <<whisper_model, startup, request>>

\* POST /transcribe from the return of the second call.
TranscribeSecondReturn(r) ==
    /\ pc[r] = "transcribe_call2"
    /\ \E out \in WhisperOutcomes(calls[r][2]) :
         IF out.raised
         THEN /\ Finish(r, DetectionFailure(RuntimeError(out.message)))
              /\ seen' = [seen EXCEPT ![r] = Append(@, out)]
         ELSE LET code == detected_lang_code[r]
                  info == DetectedLangInfo(code)
                  text == Get(out.result, "text", <<>>)
                  transcript == Strip(text)
                  confidence == TranscribeConfidence(transcript, code)
              IN  /\ seen' = [seen EXCEPT ![r] = Append(@, [raised |-> FALSE, text |-> text])]
                  /\ Finish(r, LanguageDetectionResponse(
                                  TRUE, info.name, info.code, confidence, transcript, None))
    /\ UNCHANGED <<whisper_model, startup, request, detected_lang_code, calls>>

\* A handler without the empty-results return.
NoResults_Never(results) == FALSE

\* "if not response.results" (line 286).
NoResults(results) == results = <<>>

\* The loop of lines 296-304 from segment i on: the lists and counters it
\* leaves, or the IndexError of alternatives[0] on a segment without one.
RECURSIVE ExtractFrom(_, _, _, _, _)
ExtractFrom(results, i, transcript_parts, total_confidence, result_count) ==
    IF i > Len(results)
    THEN [raised |-> FALSE, transcript_parts |-> transcript_parts,
          total_confidence |-> total_confidence, result_count |-> result_count]
    ELSE IF results[i] = <<>>
    THEN [raised |-> TRUE, message |-> "list index out of range"]
    ELSE LET alternative == results[i][1]
         IN  ExtractFrom(results, i + 1,
                         Append(transcript_parts, alternative.transcript),
                         total_confidence + alternative.confidence,
                         result_count + 1)

\* The joined transcript without the strip().
FinalTranscript_NoStrip(transcript_parts) == Join(transcript_parts)

\* Line 306.
FinalTranscript(transcript_parts) == Strip(Join(transcript_parts))

\* Line 307.
AverageConfidence(total_confidence, result_count) ==
    IF result_count > 0 THEN Ratio(total_confidence, result_count) ELSE Hundredths(0)

\* POST /transcribe-speech up to the cloud call.
TranscribeSpeechBegin(r) ==
    /\ pc[r] = "idle"
    /\ startup # "failed"
    /\ \E path \in AudioPaths, language_code \in LanguageCodes :
         /\ request' = [request EXCEPT ![r] = [endpoint |-> "transcribe-speech",
                           audio_path |-> path, language_code |-> language_code]]
         /\ seen' = [seen EXCEPT ![r] = <<PathExists(path)>>]
         /\ IF ~PathExists(path)
            THEN /\ Finish(r, TranscriptionFailure(
                                   HTTPException(404, "Audio file not found: " \o path)))
                 /\ UNCHANGED calls
            ELSE /\ pc' = [pc EXCEPT ![r] = "speech_call"]
                 /\ calls' = [calls EXCEPT ![r] = Append(@, language_code)]
                 /\ UNCHANGED response
    /\ UNCHANGED <<whisper_model, startup, detected_lang_code>>

\* POST /transcribe-speech from the return of the cloud call.
TranscribeSpeechReturn(r) ==
    /\ pc[r] = "speech_call"
    /\ \E out \in CloudOutcomes :
         /\ seen' = [seen EXCEPT ![r] = Append(@, out)]
         /\ IF out.raised
            THEN Finish(r, TranscriptionFailure(RuntimeError(out.message)))
            ELSE IF NoResults(out.results)
            THEN Finish(r, TranscriptionResponse(FALSE, <<>>, Hundredths(0),
                                                 "No speech detected in audio"))
            ELSE LET loop == ExtractFrom(out.results, 1, <<>>, 0, 0)
                 IN  IF loop.raised
                     THEN Finish(r, TranscriptionFailure(RuntimeError(loop.message)))
                     ELSE Finish(r, TranscriptionResponse(
                                      TRUE, FinalTranscript(loop.transcript_parts),
                                      AverageConfidence(loop.total_confidence, loop.result_count),
                                      None))
    /\ UNCHANGED <<whisper_model, startup, request, detected_lang_code, calls>>

Next ==
    \/ StartupLoaded
    \/ StartupFailed
    \/ \E r \in Reqs : DetectLanguageBegin(r)
    \/ \E r \in Reqs : DetectLanguageReturn(r)
    \/ \E r \in Reqs : TranscribeBegin(r)
    \/ \E r \in Reqs : TranscribeFirstReturn(r)
    \/ \E r \in Reqs : TranscribeSecondReturn(r)
    \/ \E r \in Reqs : TranscribeSpeechBegin(r)
    \/ \E r \in Reqs : TranscribeSpeechReturn(r)

Spec == Init /\ [][Next]_vars

(* ------------------------------ properties ---------------------------- *)

Done(r) == pc[r] = "done"

WhisperEndpoints == {"detect-language", "transcribe"}

IsWhisperRequest(r) == request[r].endpoint \in WhisperEndpoints

IsSpeechRequest(r) == request[r].endpoint = "transcribe-speech"

\* The outcomes request r has received from its recognition calls, in order.
OutcomesOf(r) ==
    LET first == IF IsSpeechRequest(r) THEN 2 ELSE 3
    IN  SubSeq(seen[r], first, Len(seen[r]))

\* The float value of a confidence is n hundredths.
IsHundredths(confidence, n) == confidence.num = n * confidence.den

CuratedKeys == {"en", "hi", "mr", "gu"}

\* C1: a request to any of the three POST endpoints whose audio_path names no
\* existing file ends in HTTP 404, never in HTTP 200 with success=false.
C1_MissingAudioIsNotFound ==
    \A r \in Reqs :
        (Done(r) /\ ~PathExists(request[r].audio_path)) => response[r].status = 404

\* C2: a request to /detect-language or /transcribe that finds whisper_model
\* None ends in HTTP 500, never in HTTP 200 with success=false.
C2_UnloadedModelIs500 ==
    \A r \in Reqs :
        (Done(r) /\ IsWhisperRequest(r) /\ seen[r][1] = None) => response[r].status = 500

\* C3: when a recognition call of /detect-language or /transcribe raises, in
\* the first or in the second pass, the request ends in HTTP 200 with
\* success=false, confidence 0.0, empty detected_language and transcript, and
\* the exception's message as the error field.
C3_RecognitionFailureIsAbsorbed ==
    \A r \in Reqs :
        (Done(r) /\ IsWhisperRequest(r) /\ OutcomesOf(r) # <<>>
                 /\ OutcomesOf(r)[Len(OutcomesOf(r))].raised)
        => /\ response[r].status = 200
           /\ response[r].success = FALSE
           /\ IsHundredths(response[r].confidence, 0)
           /\ response[r].detected_language = ""
           /\ response[r].transcript = <<>>
           /\ response[r].error = OutcomesOf(r)[Len(OutcomesOf(r))].message

C3_Witness ==
    \E r \in Reqs :
        /\ Done(r)
        /\ request[r].endpoint = "transcribe"
        /\ Len(OutcomesOf(r)) = 2
        /\ OutcomesOf(r)[2].raised
        /\ OutcomesOf(r)[2].message = "CUDA out of memory"

\* C4: a successful /transcribe result has confidence 0.95 when its transcript
\* is non-empty and the detected identifier is a curated key, and 0.8 otherwise.
C4_TranscribeConfidence ==
    \A r \in Reqs :
        (Done(r) /\ request[r].endpoint = "transcribe"
                 /\ response[r].status = 200 /\ response[r].success)
        => IF response[r].transcript # <<>> /\ detected_lang_code[r] \in CuratedKeys
           THEN IsHundredths(response[r].confidence, 95)
           ELSE IsHundredths(response[r].confidence, 80)

C4_Witness ==
    \E r \in Reqs :
        /\ Done(r)
        /\ request[r].endpoint = "transcribe"
        /\ response[r].status = 200
        /\ response[r].success
        /\ response[r].transcript = <<"a">>
        /\ detected_lang_code[r] = "mr"
        /\ IsHundredths(response[r].confidence, 95)

\* The segments a finished /transcribe-speech request received.
ResultsOf(r) == OutcomesOf(r)[1].results

ReceivedSegments(r) ==
    /\ Done(r)
    /\ IsSpeechRequest(r)
    /\ OutcomesOf(r) # <<>>
    /\ ~OutcomesOf(r)[1].raised

AllHaveTop(results) == \A i \in 1..Len(results) : results[i] # <<>>

RECURSIVE JoinedTops(_, _)
JoinedTops(results, n) ==
    IF n = 0 THEN <<>>
    ELSE IF n = 1 THEN results[1][1].transcript
    ELSE JoinedTops(results, n - 1) \o <<" ">> \o results[n][1].transcript

RECURSIVE SumOfTops(_, _)
SumOfTops(results, n) ==
    IF n = 0 THEN 0 ELSE SumOfTops(results, n - 1) + results[n][1].confidence

\* s without its leading and trailing spaces.
Trimmed(s) ==
    LET inked == {i \in 1..Len(s) : s[i] # " "}
    IN  IF inked = {} THEN <<>>
        ELSE SubSeq(s, CHOOSE i \in inked : \A j \in inked : i <= j,
                       CHOOSE i \in inked : \A j \in inked : j <= i)

IsMeanOfTops(confidence, results) ==
    confidence.num * Len(results) = confidence.den * SumOfTops(results, Len(results))

\* C5 as stated: with N >= 1 segments (each with a top alternative) the
\* /transcribe-speech result has success=true, the top transcripts joined by
\* single spaces as its transcript, and the mean of the top confidences.
C5_JoinedExactly ==
    \A r \in Reqs :
        (ReceivedSegments(r) /\ Len(ResultsOf(r)) >= 1 /\ AllHaveTop(ResultsOf(r)))
        => /\ response[r].status = 200
           /\ response[r].success
           /\ response[r].transcript = JoinedTops(ResultsOf(r), Len(ResultsOf(r)))
           /\ IsMeanOfTops(response[r].confidence, ResultsOf(r))

\* C5 amended: with N >= 1 segments (each with a top alternative) the
\* /transcribe-speech result has success=true, as its transcript the top
\* transcripts joined by single spaces with the leading and trailing
\* whitespace of the joined text removed, and the mean of the top confidences.
C5_JoinedThenStripped ==
    \A r \in Reqs :
        (ReceivedSegments(r) /\ Len(ResultsOf(r)) >= 1 /\ AllHaveTop(ResultsOf(r)))
        => /\ response[r].status = 200
           /\ response[r].success
           /\ response[r].transcript = Trimmed(JoinedTops(ResultsOf(r), Len(ResultsOf(r))))
           /\ IsMeanOfTops(response[r].confidence, ResultsOf(r))

C5_Witness ==
    \E r \in Reqs :
        /\ ReceivedSegments(r)
        /\ Len(ResultsOf(r)) = 2
        /\ AllHaveTop(ResultsOf(r))
        /\ response[r].success
        /\ response[r].transcript = <<"b", " ", "a">>
        /\ response[r].confidence = [num |-> 75, den |-> 1]

\* C6: with zero segments the /transcribe-speech result is HTTP 200 with
\* success=false, an empty transcript, confidence 0.0 and a non-empty error.
C6_NoSegmentsIsFailure ==
    \A r \in Reqs :
        (ReceivedSegments(r) /\ Len(ResultsOf(r)) = 0)
        => /\ response[r].status = 200
           /\ response[r].success = FALSE
           /\ response[r].transcript = <<>>
           /\ IsHundredths(response[r].confidence, 0)
           /\ response[r].error \notin {None, ""}

C6_Witness ==
    \E r \in Reqs :
        /\ ReceivedSegments(r)
        /\ Len(ResultsOf(r)) = 0
        /\ response[r].error = "No speech detected in audio"

\* Every outcome request r has received is a result, none an exception.
NoRecognitionFailure(r) == \A i \in 1..Len(OutcomesOf(r)) : ~OutcomesOf(r)[i].raised

\* name contains identifier.
Contains(name, identifier) ==
    \E before \in {"", "Unknown ("}, after \in {"", ")"} : name = before \o identifier \o after

CuratedEntry(identifier) ==
    CASE identifier = "en" -> <<"English", "en-IN">>
      [] identifier = "hi" -> <<"[hi] (Hindi)", "hi-IN">>
      [] identifier = "mr" -> <<"[mr] (Marathi)", "mr-IN">>
      [] identifier = "gu" -> <<"[gu] (Gujarati)", "gu-IN">>

\* C7: a /detect-language or /transcribe request whose recognition calls all
\* returned ends successfully, with the curated display name and locale code
\* of the detected identifier when it is one of en, hi, mr, gu, and otherwise
\* with a display name that contains the identifier and the locale code en-IN.
C7_RegistryLookup ==
    \A r \in Reqs :
        (Done(r) /\ IsWhisperRequest(r) /\ OutcomesOf(r) # <<>> /\ NoRecognitionFailure(r))
        => /\ response[r].status = 200
           /\ response[r].success
           /\ IF detected_lang_code[r] \in CuratedKeys
              THEN /\ response[r].detected_language = CuratedEntry(detected_lang_code[r])[1]
                   /\ response[r].language_code = CuratedEntry(detected_lang_code[r])[2]
              ELSE /\ Contains(response[r].detected_language, detected_lang_code[r])
                   /\ response[r].language_code = "en-IN"

C7_Witness ==
    \E r, s \in Reqs :
        /\ Done(r) /\ request[r].endpoint = "detect-language"
        /\ response[r].status = 200 /\ response[r].success
        /\ detected_lang_code[r] = "gu" /\ response[r].language_code = "gu-IN"
        /\ Done(s) /\ request[s].endpoint = "transcribe"
        /\ response[s].status = 200 /\ response[s].success
        /\ detected_lang_code[s] = "fr" /\ response[s].detected_language = "Unknown (fr)"

\* C8: a successful /detect-language result has confidence 0.9 when the
\* detected identifier is a curated key and 0.7 otherwise.
C8_DetectConfidence ==
    \A r \in Reqs :
        (Done(r) /\ request[r].endpoint = "detect-language"
                 /\ response[r].status = 200 /\ response[r].success)
        => IF detected_lang_code[r] \in CuratedKeys
           THEN IsHundredths(response[r].confidence, 90)
           ELSE IsHundredths(response[r].confidence, 70)

C8_Witness ==
    \E r, s \in Reqs :
        /\ Done(r) /\ request[r].endpoint = "detect-language"
        /\ response[r].status = 200 /\ response[r].success
        /\ detected_lang_code[r] = "hi" /\ IsHundredths(response[r].confidence, 90)
        /\ Done(s) /\ request[s].endpoint = "detect-language"
        /\ response[s].status = 200 /\ response[s].success
        /\ detected_lang_code[s] = "fr" /\ IsHundredths(response[s].confidence, 70)

\* C9: a /transcribe request makes at most two recognition calls: the first
\* without a language hint; the second only after the first has returned, with
\* the identifier the first call gave as its hint; once a call has raised, no
\* further call is made and the result carries no data of an earlier pass.
C9_TwoPassesInOrder ==
    \A r \in Reqs :
        request[r].endpoint = "transcribe"
        => /\ Len(calls[r]) <= 2
           /\ Len(calls[r]) >= 1 => calls[r][1] = None
           /\ Len(calls[r]) = 2 =>
                /\ Len(OutcomesOf(r)) >= 1
                /\ ~OutcomesOf(r)[1].raised
                /\ calls[r][2] = OutcomesOf(r)[1].language
           /\ Len(OutcomesOf(r)) <= Len(calls[r])
           /\ \A i \in 1..Len(OutcomesOf(r)) :
                OutcomesOf(r)[i].raised
                => /\ Done(r)
                   /\ Len(calls[r]) = i
                   /\ Len(OutcomesOf(r)) = i
                   /\ response[r].detected_language = ""
                   /\ response[r].language_code = "en-IN"
                   /\ response[r].transcript = <<>>

C9_Witness ==
    \E r \in Reqs :
        /\ Done(r)
        /\ request[r].endpoint = "transcribe"
        /\ calls[r] = <<None, "hi">>
        /\ OutcomesOf(r)[2].raised

\* All the state of request r.
Slot(r) == <<pc[r], request[r], detected_lang_code[r], calls[r], seen[r], response[r]>>

\* C10: under any interleaving of requests, whisper_model is written only by
\* the startup event and by no request handler; a step of one request changes
\* no state of another; and two requests with the same body that read the same
\* handle, file system and recognition answers end with the same response.
C10_RequestsAreIndependent ==
    [][/\ whisper_model' # whisper_model =>
            /\ startup = "pending"
            /\ startup' = "done"
            /\ \A r \in Reqs : Slot(r)' = Slot(r)
       /\ startup' # startup => \A r \in Reqs : Slot(r)' = Slot(r)
       /\ \A r, s \in Reqs : (r # s /\ Slot(r)' # Slot(r)) => Slot(s)' = Slot(s)
       /\ \A r, s \in Reqs :
            (Done(r)' /\ Done(s)' /\ request'[r] = request'[s] /\ seen'[r] = seen'[s])
            => response'[r] = response'[s]]_vars

C10_Witness ==
    \E r, s \in Reqs :
        /\ whisper_model # None
        /\ pc[r] = "transcribe_call2"
        /\ pc[s] = "speech_call"

====
